---- MODULE Spec2Model ----
(***************************************************************************)
(* ElectronIpcMainConnection: the MessageReader / MessageWriter pair that  *)
(* adapts the ipcMain event channel 'theia-json-rpc' to vscode-jsonrpc.    *)
(*                                                                         *)
(* The state is the module-level state of electron-ipc-connection.ts       *)
(* (toDispose and the three emitters), the listener array ipcMain keeps    *)
(* for the channel, and what each callback has been invoked with.          *)
(* Every handler is one action; a handler runs to completion, including    *)
(* the callbacks ipcMain.emit invokes synchronously and whatever those     *)
(* callbacks call back into the adapter.                                   *)
(***************************************************************************)
EXTENDS Integers, Sequences, FiniteSets, TLC

\* ------------------------------------------------------------------ bounds
MaxPub == 2        \* publications on the channel (writes and foreign emits)
MaxListen == 2     \* listen() calls that register while the tracker is active
MaxSubs == 1       \* subscriptions to the signal events, all emitters together
MaxChanges == 3    \* problem matchers added to or disposed from the registry
MaxUpdates == 3    \* update() calls of the TaskSchemaUpdater, whoever makes them

\* ------------------------------------------------------------------ inputs
\* The channel the adapter uses, and the values that pass over it.
ElectronIpcMainChannel == "theia-json-rpc"
\* Every channel of ipcMain the model keeps: the adapter's and one other.
Channels == {ElectronIpcMainChannel, "other-channel"}
Messages == {"m1", "m2"}
\* What other publishers of the process emit on the channel.
ForeignMessages == {"x1"}

\* Callbacks handed to listen(): one that only consumes the message and one
\* whose body disposes the connection while the message is being delivered.
PlainCallbacks == {"cb1"}
DisposingCallbacks == {"cbDispose"}
ListenCallbacks == PlainCallbacks \cup DisposingCallbacks
\* Listeners other parties of the process register on the same channel.
ForeignCallbacks == {"ext1"}
AllCallbacks == ListenCallbacks \cup ForeignCallbacks
\* Listeners subscribed through onError / onClose / onPartialMessage.
SignalCallbacks == {"s1"}

EmitterNames == {"error", "close", "partial"}
\* The order of the array handed to toDispose.pushAll.
EmitterOrder == <<"error", "close", "partial">>

VARIABLES
    disposed,      \* toDispose.disposed
    disposables,   \* what toDispose tracks, in push order
    listeners,     \* ipcMain's listener array of each channel
    subs,          \* subscribers of each emitter's event, in subscription order
    torn,          \* emitter has been disposed
    received,      \* per callback: the events it was invoked with, in order
    fired,         \* per emitter: invocations of its subscribers
    emitterRuns,   \* per emitter: how often its dispose() ran
    listenerRuns,  \* per listen registration: how often its unregistration ran
    nreg,          \* listen registrations made so far
    npub,          \* publications made on the channel so far
    raised,        \* some call into the adapter threw
    dropped,       \* subscriptions that were dropped by disposing their emitter
    writeLog,      \* history: the messages passed to write() while active
    lateCall,      \* history: the last call made on the disposed adapter
    disposedBy,    \* history: the call that disposed the tracker
    \* TaskSchemaUpdater
    inited,              \* init() has run (postConstruct)
    registry,            \* problemMatcherRegistry: matcher names, registry order
    problemMatcherNames, \* the module-level problemMatcherNames array
    updates,             \* the update() calls made, each with its position
    resource,            \* inmemoryResources and jsonSchemaStore, for taskSchemaId
    nchanges             \* registry changes made so far

connVars == <<disposed, disposables, listeners, subs, torn, received, fired,
              emitterRuns, listenerRuns, nreg, npub, raised, dropped, writeLog,
              lateCall, disposedBy>>

schemaVars == <<inited, registry, problemMatcherNames, updates, resource,
                nchanges>>

vars == <<connVars, schemaVars>>

\* The program state as one value, so that a handler is a function on it.
St == [disposed |-> disposed, disposables |-> disposables,
       listeners |-> listeners, subs |-> subs, torn |-> torn,
       received |-> received, fired |-> fired, emitterRuns |-> emitterRuns,
       listenerRuns |-> listenerRuns, nreg |-> nreg, npub |-> npub,
       raised |-> raised, dropped |-> dropped]

Becomes(s) ==
    /\ disposed' = s.disposed
    /\ disposables' = s.disposables
    /\ listeners' = s.listeners
    /\ subs' = s.subs
    /\ torn' = s.torn
    /\ received' = s.received
    /\ fired' = s.fired
    /\ emitterRuns' = s.emitterRuns
    /\ listenerRuns' = s.listenerRuns
    /\ nreg' = s.nreg
    /\ npub' = s.npub
    /\ raised' = s.raised
    /\ dropped' = s.dropped
    /\ UNCHANGED schemaVars

\* ------------------------------------------------------------ sequences
Count(seq, x) == Cardinality({i \in 1..Len(seq) : seq[i] = x})

LastIndexOf(seq, x) ==
    IF Count(seq, x) = 0 THEN 0
    ELSE CHOOSE i \in 1..Len(seq) :
            /\ seq[i] = x
            /\ \A j \in (i+1)..Len(seq) : seq[j] # x

RemoveAt(seq, i) == SubSeq(seq, 1, i-1) \o SubSeq(seq, i+1, Len(seq))

\* -------------------------------------------------- tracked disposables
EmitterItem(e) == [kind |-> "emitter", name |-> e, id |-> 0, since |-> 0]
ListenerItem(cb, n, k) == [kind |-> "listener", name |-> cb, id |-> n, since |-> k]

\* (mutation) the emitters are never handed to the tracker
InitDisposablesNoEmitters == <<>>

\* toDispose.pushAll([errorEmitter, closeEmitter, partialEmitter])
InitDisposables == [i \in 1..3 |-> EmitterItem(EmitterOrder[i])]

\* ---------------------------------------------------------------- ipcMain
\* ipcMain.on(channel, callback): appends to the channel's listener array;
\* the same function may be added more than once.
IpcOn(s, ch, cb) == [s EXCEPT !.listeners[ch] = Append(@, cb)]

\* ipcMain.removeListener(channel, callback): removes the most recently
\* added instance of callback, nothing when there is none.
IpcRemoveListener(s, ch, cb) ==
    LET i == LastIndexOf(s.listeners[ch], cb)
    IN IF i = 0 THEN s ELSE [s EXCEPT !.listeners[ch] = RemoveAt(@, i)]

\* ---------------------------------------------------------------- Emitter
\* Emitter.dispose(): drops every subscriber.
EmitterDispose(s, e) ==
    [s EXCEPT !.subs[e] = <<>>, !.torn[e] = TRUE, !.emitterRuns[e] = @ + 1,
              !.dropped = @ + Len(s.subs[e])]

\* Emitter.fire(): invokes every current subscriber, in subscription order.
EmitterFire(s, e) == [s EXCEPT !.fired[e] = @ + Len(s.subs[e])]

\* ---------------------------------------------------- DisposableCollection
\* (mutation) the unregistration clears the whole channel
UnregisterListenerAll(s, it) ==
    [s EXCEPT !.listeners[ElectronIpcMainChannel] = <<>>,
              !.listenerRuns[it.id] = @ + 1]

\* (mutation) the unregistration names a function that was never registered
UnregisterListenerOther(s, it) == [s EXCEPT !.listenerRuns[it.id] = @ + 1]

\* (mutation) the unregistration is made on another channel
UnregisterListenerWrongChannel(s, it) ==
    [IpcRemoveListener(s, "other-channel", it.name)
        EXCEPT !.listenerRuns[it.id] = @ + 1]

\* Disposable.create(() => ipcMain.removeListener(channel, callback)).dispose()
UnregisterListener(s, it) ==
    [IpcRemoveListener(s, ElectronIpcMainChannel, it.name)
        EXCEPT !.listenerRuns[it.id] = @ + 1]

RunDisposable(s, it) ==
    IF it.kind = "emitter" THEN EmitterDispose(s, it.name)
    ELSE UnregisterListener(s, it)

\* toDispose.push(disposable)
TrackerPush(s, it) == [s EXCEPT !.disposables = Append(@, it)]

RECURSIVE RunAll(_, _)
RunAll(s, items) ==
    IF items = <<>> THEN s
    ELSE RunAll(RunDisposable(s, items[Len(items)]),
                SubSeq(items, 1, Len(items) - 1))

\* toDispose.dispose(): nothing when already disposed; otherwise runs every
\* tracked disposable once and forgets it.
TrackerDispose(s) ==
    IF s.disposed THEN s
    ELSE [RunAll(s, s.disposables) EXCEPT !.disposables = <<>>, !.disposed = TRUE]

\* ---------------------------------------------------------------- handlers
\* (mutation) dispose() also disposes the emitters itself, on every call
DisposeOpEmittersDirect(s) ==
    TrackerDispose(
        EmitterDispose(EmitterDispose(EmitterDispose(s, "partial"), "close"),
                       "error"))

\* (mutation) dispose() announces the close before it disposes
DisposeOpFiringClose(s) == TrackerDispose(EmitterFire(s, "close"))

\* (mutation) dispose() leaves a fresh, active tracker behind
DisposeOpFreshTracker(s) == [TrackerDispose(s) EXCEPT !.disposed = FALSE]

\* MessageReader.dispose / MessageWriter.dispose
DisposeOp(s) == TrackerDispose(s)

\* What invoking a callback does: it records the event; the disposing
\* callback then disposes the connection.
InvokeCallback(s, cb, ev) ==
    LET s1 == [s EXCEPT !.received[cb] = Append(@, ev)]
    IN IF cb \in DisposingCallbacks THEN DisposeOp(s1) ELSE s1

RECURSIVE Deliver(_, _, _)
Deliver(s, snapshot, ev) ==
    IF snapshot = <<>> THEN s
    ELSE Deliver(InvokeCallback(s, Head(snapshot), ev), Tail(snapshot), ev)

\* ipcMain.emit(channel, message): invokes, synchronously and in
\* registration order, every listener registered when emit was called; a
\* listener removed while the emit is in progress is still invoked.
IpcEmit(s, ch, m, who) ==
    Deliver([s EXCEPT !.npub = @ + 1], s.listeners[ch],
            [msg |-> m, from |-> who, late |-> s.disposed])

\* (mutation) listen() without the disposed check
ListenOpUnguarded(s, cb) ==
    TrackerPush([IpcOn(s, ElectronIpcMainChannel, cb) EXCEPT !.nreg = @ + 1],
                ListenerItem(cb, s.nreg + 1, Len(writeLog)))

\* (mutation) listen() takes the channel over from the listeners it has
ListenOpExclusive(s, cb) ==
    IF ~ s.disposed
    THEN TrackerPush(
            [IpcOn([s EXCEPT !.listeners[ElectronIpcMainChannel] = <<>>],
                   ElectronIpcMainChannel, cb) EXCEPT !.nreg = @ + 1],
            ListenerItem(cb, s.nreg + 1, Len(writeLog)))
    ELSE s

\* (mutation) listen() subscribes on a channel write() does not emit on
ListenOpOtherChannel(s, cb) ==
    IF ~ s.disposed
    THEN TrackerPush([IpcOn(s, "other-channel", cb) EXCEPT !.nreg = @ + 1],
                     ListenerItem(cb, s.nreg + 1, Len(writeLog)))
    ELSE s

\* (mutation) listen() hands the messages written so far to the new callback
ListenOpReplaying(s, cb) ==
    IF ~ s.disposed
    THEN TrackerPush(
            [IpcOn(s, ElectronIpcMainChannel, cb) EXCEPT
                !.nreg = @ + 1,
                !.received[cb] = @ \o [i \in 1..Len(writeLog) |->
                    [msg |-> writeLog[i], from |-> "adapter", late |-> FALSE]]],
            ListenerItem(cb, s.nreg + 1, Len(writeLog)))
    ELSE s

\* (mutation) listen() registers the callback and tracks no unregistration
ListenOpUntracked(s, cb) ==
    IF ~ s.disposed
    THEN [IpcOn(s, ElectronIpcMainChannel, cb) EXCEPT !.nreg = @ + 1]
    ELSE s

\* MessageReader.listen(callback)
ListenOp(s, cb) ==
    IF ~ s.disposed
    THEN TrackerPush([IpcOn(s, ElectronIpcMainChannel, cb) EXCEPT !.nreg = @ + 1],
                     ListenerItem(cb, s.nreg + 1, Len(writeLog)))
    ELSE s

\* (mutation) write() without the disposed check
WriteOpUnguarded(s, m) == IpcEmit(s, ElectronIpcMainChannel, m, "adapter")

\* (mutation) write() emits on another channel
WriteOpOtherChannel(s, m) ==
    IF ~ s.disposed THEN IpcEmit(s, "other-channel", m, "adapter") ELSE s

\* (mutation) write() passes an event object ahead of the message, as
\* ipcMain itself does for messages of a renderer
WriteOpWithEvent(s, m) ==
    IF ~ s.disposed
    THEN IpcEmit(s, ElectronIpcMainChannel, "event", "adapter")
    ELSE s

\* MessageWriter.write(message)
WriteOp(s, m) ==
    IF ~ s.disposed THEN IpcEmit(s, ElectronIpcMainChannel, m, "adapter") ELSE s

\* errorEmitter.event / closeEmitter.event / partialEmitter.event called
\* with a listener.  The policy modelled for an emitter that was disposed:
\* the call succeeds and the subscription is inert.
SubscribeOp(s, e, l) ==
    IF s.torn[e] THEN s
    ELSE [s EXCEPT !.subs[e] = Append(@, l)]

\* The handle a subscription returns, disposed.
UnsubscribeOp(s, e, i) == [s EXCEPT !.subs[e] = RemoveAt(@, i)]

\* ------------------------------------------------------------------- Init
ConnInit ==
    /\ disposed = FALSE
    /\ disposables = InitDisposables
    /\ listeners = [ch \in Channels |-> <<>>]
    /\ subs = [e \in EmitterNames |-> <<>>]
    /\ torn = [e \in EmitterNames |-> FALSE]
    /\ received = [cb \in AllCallbacks |-> <<>>]
    /\ fired = [e \in EmitterNames |-> 0]
    /\ emitterRuns = [e \in EmitterNames |-> 0]
    /\ listenerRuns = [n \in 1..(MaxListen + 1) |-> 0]
    /\ nreg = 0
    /\ npub = 0
    /\ raised = FALSE
    /\ dropped = 0
    /\ writeLog = <<>>
    /\ lateCall = <<"none", "">>
    /\ disposedBy = "nobody"

\* The TaskSchemaUpdater as constructed, before init(): nothing registered,
\* problemMatcherNames = [], no resource for taskSchemaId.
SchemaInit ==
    /\ inited = FALSE
    /\ registry = <<>>
    /\ problemMatcherNames = <<>>
    /\ updates = <<>>
    /\ resource = [exists |-> FALSE, content |-> <<>>, adds |-> 0,
                   registers |-> 0, replaces |-> 0]
    /\ nchanges = 0

Init == ConnInit /\ SchemaInit

\* A call on the disposed adapter is remembered, since it leaves no other trace.
Late(name, arg) == lateCall' = IF disposed THEN <<name, arg>> ELSE lateCall

\* The call that moves the tracker to disposed is remembered.
By(who) == disposedBy' = IF ~ disposed /\ disposed' THEN who ELSE disposedBy

\* So is the half whose dispose() is called on the active adapter.
Called(who) == disposedBy' = IF ~ disposed THEN who ELSE disposedBy

TotalSubs == Len(subs["error"]) + Len(subs["close"]) + Len(subs["partial"])

\* ---------------------------------------------------------------- actions
Listen(cb) ==
    /\ disposed \/ nreg < MaxListen
    /\ Becomes(ListenOp(St, cb))
    /\ Late("listen", cb)
    /\ UNCHANGED <<writeLog, disposedBy>>

Write(m) ==
    /\ disposed \/ npub < MaxPub
    /\ Becomes(WriteOp(St, m))
    /\ writeLog' = IF disposed THEN writeLog ELSE Append(writeLog, m)
    /\ Late("write", "")
    /\ By("callback")

ReaderDispose ==
    /\ Becomes(DisposeOp(St))
    /\ Late("reader.dispose", "")
    /\ Called("reader")
    /\ UNCHANGED writeLog

\* (mutation) the writer half disposes a tracker of its own
WriterDisposeOwnTracker ==
    /\ Becomes(St)
    /\ Late("writer.dispose", "")
    /\ Called("writer")
    /\ UNCHANGED writeLog

WriterDispose ==
    /\ Becomes(DisposeOp(St))
    /\ Late("writer.dispose", "")
    /\ Called("writer")
    /\ UNCHANGED writeLog

Subscribe(e, l) ==
    /\ TotalSubs < MaxSubs
    /\ Becomes(SubscribeOp(St, e, l))
    /\ UNCHANGED <<writeLog, lateCall, disposedBy>>

Unsubscribe(e) ==
    /\ \E i \in 1..Len(subs[e]) : Becomes(UnsubscribeOp(St, e, i))
    /\ UNCHANGED <<writeLog, lateCall, disposedBy>>

\* Other parties of the process using ipcMain on the same channel: each
\* registers its listener once and keeps it.
ForeignOn(cb) ==
    /\ Count(listeners[ElectronIpcMainChannel], cb) = 0
    /\ Becomes(IpcOn(St, ElectronIpcMainChannel, cb))
    /\ UNCHANGED <<writeLog, lateCall, disposedBy>>

ForeignEmit(m) ==
    /\ npub < MaxPub
    /\ Becomes(IpcEmit(St, ElectronIpcMainChannel, m, "other"))
    /\ By("callback")
    /\ UNCHANGED <<writeLog, lateCall>>

Next ==
    \/ \E cb \in ListenCallbacks : Listen(cb)
    \/ \E m \in Messages : Write(m)
    \/ ReaderDispose
    \/ WriterDispose
    \/ \E e \in EmitterNames, l \in SignalCallbacks : Subscribe(e, l)
    \/ \E e \in EmitterNames : Unsubscribe(e)
    \/ \E cb \in ForeignCallbacks : ForeignOn(cb)
    \/ \E m \in ForeignMessages : ForeignEmit(m)

Spec == Init /\ [][Next]_vars

\* ------------------------------------------------------ TaskSchemaUpdater
\* Names of problem matchers, as sequences of characters: 'g', '$g', 't'.
MatcherNames == {<<"g">>, <<"$", "g">>, <<"t">>}
\* What taskService.getRegisteredTaskTypes() resolves with.
TaskTypeLists == {<<"shell">>, <<"shell", "npm">>}

\* m.name.startsWith('$') ? m.name : `$${m.name}`
DollarName(n) == IF Len(n) > 0 /\ n[1] = "$" THEN n ELSE <<"$">> \o n

\* (mutation) the list is not emptied before the names are pushed
MatcherNamesAccumulating(old, reg) ==
    old \o [i \in 1..Len(reg) |-> DollarName(reg[i])]

\* updateProblemMatcherNames: problemMatcherNames after length = 0 and
\* push(...matcherNames), given what it held and what getAll() returns.
MatcherNamesAfterUpdate(old, reg) == [i \in 1..Len(reg) |-> DollarName(reg[i])]

\* update() up to its first suspension: getTaskSchema() has cloned
\* taskConfigurationSchema, problemMatcherNames included, and awaits the
\* registered task types.
StartUpdate(ups, names) ==
    Append(ups, [pc |-> "types", names |-> names, content |-> <<>>])

\* JSON.stringify(taskSchema), by what it holds.
SchemaContent(names, types) == <<names, types>>

\* inmemoryResources.update throws when there is no resource for the uri.
ResourceUpdateThrows(r) == ~ r.exists
ResourceUpdate(r, c) == [r EXCEPT !.content = c, !.replaces = @ + 1]
ResourceAdd(r, c) == [r EXCEPT !.exists = TRUE, !.content = c, !.adds = @ + 1]
RegisterSchema(r) == [r EXCEPT !.registers = @ + 1]

\* (mutation) the schema is registered after the try block, on every update
UpdateResourceRegisterAlways(r, c) ==
    RegisterSchema(IF ResourceUpdateThrows(r) THEN ResourceAdd(r, c)
                   ELSE ResourceUpdate(r, c))

\* update() from the resolved schema content on: the try block and its catch.
UpdateResource(r, c) ==
    IF ~ ResourceUpdateThrows(r) THEN ResourceUpdate(r, c)
    ELSE RegisterSchema(ResourceAdd(r, c))

\* updateProblemMatcherNames(), the update() it starts included.
UpdateProblemMatcherNames(reg) ==
    /\ problemMatcherNames' = MatcherNamesAfterUpdate(problemMatcherNames, reg)
    /\ updates' = StartUpdate(updates, problemMatcherNames')

\* init()
PostConstruct ==
    /\ ~ inited
    /\ inited' = TRUE
    /\ UpdateProblemMatcherNames(registry)
    /\ UNCHANGED <<registry, resource, nchanges>>
    /\ UNCHANGED connVars

\* The registry has changed to reg and fires onDidChangeProblemMatcher:
\* the listener init() subscribed runs, when init() has run.
RegistryChanged(reg) ==
    /\ nchanges < MaxChanges
    /\ inited => Len(updates) < MaxUpdates
    /\ registry' = reg
    /\ nchanges' = nchanges + 1
    /\ IF inited THEN UpdateProblemMatcherNames(reg)
       ELSE UNCHANGED <<problemMatcherNames, updates>>
    /\ UNCHANGED <<inited, resource>>
    /\ UNCHANGED connVars

\* A problem matcher with a name the registry does not hold is added, at
\* the end.
RegistryAdd(n) ==
    /\ Count(registry, n) = 0
    /\ RegistryChanged(Append(registry, n))

\* A problem matcher is disposed.
RegistryDispose(i) == RegistryChanged(RemoveAt(registry, i))

\* update() called by another component.
CallUpdate ==
    /\ inited
    /\ Len(updates) < MaxUpdates
    /\ updates' = StartUpdate(updates, problemMatcherNames)
    /\ UNCHANGED <<inited, registry, problemMatcherNames, resource, nchanges>>
    /\ UNCHANGED connVars

\* getRegisteredTaskTypes() resolves: getTaskSchema() returns the content.
TypesResolve(u, types) ==
    /\ updates[u].pc = "types"
    /\ updates' = [updates EXCEPT ![u].pc = "schema",
                       ![u].content = SchemaContent(updates[u].names, types)]
    /\ UNCHANGED <<inited, registry, problemMatcherNames, resource, nchanges>>
    /\ UNCHANGED connVars

\* getRegisteredTaskTypes() rejects: update() rejects.
TypesReject(u) ==
    /\ updates[u].pc = "types"
    /\ updates' = [updates EXCEPT ![u].pc = "rejected"]
    /\ UNCHANGED <<inited, registry, problemMatcherNames, resource, nchanges>>
    /\ UNCHANGED connVars

\* update() resumes with the schema content and runs to its end.
SchemaResolve(u) ==
    /\ updates[u].pc = "schema"
    /\ updates' = [updates EXCEPT ![u].pc = "done"]
    /\ resource' = UpdateResource(resource, updates[u].content)
    /\ UNCHANGED <<inited, registry, problemMatcherNames, nchanges>>
    /\ UNCHANGED connVars

SchemaNext ==
    \/ PostConstruct
    \/ \E n \in MatcherNames : RegistryAdd(n)
    \/ \E i \in 1..Len(registry) : RegistryDispose(i)
    \/ CallUpdate
    \/ \E u \in 1..Len(updates), types \in TaskTypeLists : TypesResolve(u, types)
    \/ \E u \in 1..Len(updates) : TypesReject(u)
    \/ \E u \in 1..Len(updates) : SchemaResolve(u)

SchemaSpec == Init /\ [][SchemaNext]_vars

\* ------------------------------------------------------------ properties
Event(m, who, late) == [msg |-> m, from |-> who, late |-> late]

MainListeners == listeners[ElectronIpcMainChannel]

\* The registrations of cb that listen() made and the tracker still holds.
TrackedItems(cb) ==
    {i \in 1..Len(disposables) :
        disposables[i].kind = "listener" /\ disposables[i].name = cb}

\* cb was handed to listen() exactly once, and the adapter is active.
RegisteredOnce(cb) == ~ disposed /\ Cardinality(TrackedItems(cb)) = 1

\* The number of write() calls that preceded the one registration of cb.
Since(cb) == disposables[CHOOSE i \in TrackedItems(cb) : TRUE].since

WritesSince(cb) == SubSeq(writeLog, Since(cb) + 1, Len(writeLog))

FromAdapter(seq) == SelectSeq(seq, LAMBDA ev : ev.from = "adapter")

MsgsOf(seq) == [i \in 1..Len(seq) |-> seq[i].msg]

HasLate(seq) == \E i \in 1..Len(seq) : seq[i].late

OnlyForeign(seq) == SelectSeq(seq, LAMBDA c : c \in ForeignCallbacks)

\* C1: a callback registered by one listen() call, while the tracker is not
\* disposed, has observed exactly the messages written since it was
\* registered, in the order they were written.
C1_WritesObservedInOrder ==
    \A cb \in ListenCallbacks :
        RegisteredOnce(cb) =>
            MsgsOf(FromAdapter(received[cb])) = WritesSince(cb)

C1_Witness ==
    /\ RegisteredOnce("cb1")
    /\ WritesSince("cb1") = <<"m2", "m1">>
    /\ Len(received["cb1"]) = 2

\* C2: on the disposed adapter write(m) changes nothing: nothing is
\* published, no callback is invoked, no error is raised.
C2_WriteAfterDisposeIsNoOp ==
    disposed => \A m \in Messages : WriteOp(St, m) = St

C2_Witness ==
    /\ lateCall = <<"write", "">>
    /\ Count(MainListeners, "ext1") = 1
    /\ received["cb1"] # <<>>
    /\ ~ HasLate(received["ext1"])

\* C3: on the disposed adapter listen(cb) registers nothing with ipcMain,
\* adds nothing to the tracker and raises nothing, and cb is not invoked by
\* whatever is published on the channel afterwards.
C3_ListenAfterDisposeIsNoOp ==
    disposed =>
        \A cb \in ListenCallbacks :
            /\ ListenOp(St, cb) = St
            /\ \A m \in Messages \cup ForeignMessages :
                  /\ IpcEmit(ListenOp(St, cb), ElectronIpcMainChannel, m,
                             "other").received[cb] = received[cb]
                  /\ WriteOp(ListenOp(St, cb), m).received[cb] = received[cb]

C3_Witness ==
    /\ lateCall = <<"listen", "cb1">>
    /\ received["cb1"] = <<>>
    /\ HasLate(received["ext1"])

\* C4: dispose() is idempotent: disposing the state a dispose() leaves
\* changes nothing, so no disposal action runs again and nothing is raised.
C4_DisposeIdempotent ==
    LET once == DisposeOp(St)
    IN /\ DisposeOp(once) = once
       /\ disposed => once = St

C4_Witness ==
    /\ disposedBy = "reader"
    /\ lateCall = <<"writer.dispose", "">>
    /\ listenerRuns[1] = 1
    /\ \A e \in EmitterNames : emitterRuns[e] = 1

C6_SingleWriteDeliveredOnceUnchanged ==
    \A cb \in ListenCallbacks : \A m \in Messages :
        RegisteredOnce(cb) =>
            WriteOp(St, m).received[cb] =
                Append(received[cb], Event(m, "adapter", FALSE))

C6_Witness ==
    /\ RegisteredOnce("cb1")
    /\ writeLog = <<"m1">>
    /\ received["cb1"] = <<Event("m1", "adapter", FALSE)>>

\* C7: delivery is broadcast: when two different listeners are registered
\* on the channel, one write invokes each of them exactly once.
IsRegistered(c) ==
    IF c \in ListenCallbacks THEN RegisteredOnce(c)
    ELSE Count(MainListeners, c) = 1

C7_Broadcast ==
    ~ disposed =>
        \A m \in Messages : \A c1, c2 \in AllCallbacks :
            (c1 # c2 /\ IsRegistered(c1) /\ IsRegistered(c2)) =>
                LET after == WriteOp(St, m).received
                IN /\ Len(after[c1]) = Len(received[c1]) + 1
                   /\ Len(after[c2]) = Len(received[c2]) + 1
                   /\ after[c1][Len(after[c1])].msg = m
                   /\ after[c2][Len(after[c2])].msg = m

C7_Witness ==
    /\ IsRegistered("cb1")
    /\ IsRegistered("ext1")
    /\ npub = 1
    /\ received["cb1"] = <<Event("m2", "adapter", FALSE)>>
    /\ received["ext1"] = received["cb1"]

\* C8: dispose() removes from the channel the listeners listen() registered
\* and no other: the listeners of other parties stay registered and are
\* still invoked with what other publishers emit.
C8_DisposeRemovesOnlyOwnListeners ==
    LET after == DisposeOp(St)
    IN /\ OnlyForeign(after.listeners[ElectronIpcMainChannel]) =
              OnlyForeign(MainListeners)
       /\ \A cb \in ListenCallbacks :
              Count(after.listeners[ElectronIpcMainChannel], cb) = 0
       /\ \A ext \in ForeignCallbacks : \A m \in ForeignMessages :
              Count(MainListeners, ext) = 1 =>
                  IpcEmit(after, ElectronIpcMainChannel, m, "other").received[ext]
                      = Append(received[ext], Event(m, "other", TRUE))

C8_Witness ==
    /\ disposed
    /\ listenerRuns[1] = 1
    /\ Count(MainListeners, "ext1") = 1
    /\ HasLate(received["ext1"])
    /\ ~ received["ext1"][1].late

\* C9: no listener subscribed through onError, onClose or onPartialMessage
\* is ever invoked.
C9_SignalsNeverFired == \A e \in EmitterNames : fired[e] = 0

C9_Witness ==
    /\ disposed
    /\ dropped > 0
    /\ nreg > 0
    /\ npub > 0

C11_OneWayLifecycle ==
    /\ ~ disposed
    /\ [](DisposeOp(St).disposed)
    /\ [][disposed => disposed']_vars

C11_Witness ==
    /\ disposed
    /\ disposedBy = "writer"
    /\ lateCall = <<"listen", "cbDispose">>
    /\ HasLate(received["ext1"])

\* C12: over the whole lifetime every tracked disposal action runs exactly
\* once: none before the disposal, and after it the unregistration of every
\* listen registration and the teardown of each emitter have run once,
\* however often dispose() was called.
RunsAsOf(s) ==
    /\ \A e \in EmitterNames : s.emitterRuns[e] = IF s.disposed THEN 1 ELSE 0
    /\ \A n \in DOMAIN s.listenerRuns :
          s.listenerRuns[n] = IF s.disposed /\ n <= s.nreg THEN 1 ELSE 0

C12_EveryActionRunsOnce ==
    /\ RunsAsOf(St)
    /\ RunsAsOf(DisposeOp(St))
    /\ RunsAsOf(DisposeOp(DisposeOp(St)))

C12_Witness ==
    /\ disposed
    /\ nreg = 2
    /\ listenerRuns[1] = 1 /\ listenerRuns[2] = 1
    /\ \A e \in EmitterNames : emitterRuns[e] = 1
    /\ lateCall[1] = "reader.dispose"
    /\ disposedBy = "reader"

\* C13: a callback registered through listen that calls dispose() while a
\* write delivers to it leaves the adapter disposed, with no listen callback
\* on the channel, every tracked action run exactly once and nothing
\* raised, and a later write does not reach that callback.
SettledAfterDispose(s) ==
    /\ s.disposed
    /\ s.disposables = <<>>
    /\ ~ s.raised
    /\ RunsAsOf(s)
    /\ \A cb \in ListenCallbacks :
          Count(s.listeners[ElectronIpcMainChannel], cb) = 0

C13_ReentrantDisposeIsSafe ==
    /\ disposedBy = "callback" => SettledAfterDispose(St)
    /\ \A cb \in DisposingCallbacks : \A m \in Messages :
          (~ disposed /\ TrackedItems(cb) # {}) =>
              LET after == WriteOp(St, m)
              IN /\ SettledAfterDispose(after)
                 /\ Len(after.received[cb]) =
                        Len(received[cb]) + Cardinality(TrackedItems(cb))
                 /\ \A m2 \in Messages :
                        WriteOp(after, m2).received[cb] = after.received[cb]

C13_Witness ==
    /\ disposedBy = "callback"
    /\ received["cbDispose"] = <<Event("m1", "adapter", FALSE)>>
    /\ received["cb1"] = received["cbDispose"]
    /\ listenerRuns[2] = 1
    /\ lateCall = <<"write", "">>

\* C14: nothing is buffered: a write with no listener on the channel
\* reaches nobody, listen() itself invokes nothing, and a callback has seen
\* no message that was written before it was registered.
C14_NoBuffering ==
    /\ \A m \in Messages :
          (~ disposed /\ MainListeners = <<>>) =>
              WriteOp(St, m).received = received
    /\ \A cb \in ListenCallbacks :
          /\ ListenOp(St, cb).received = received
          /\ (~ disposed /\ TrackedItems(cb) = {}) => received[cb] = <<>>
          /\ RegisteredOnce(cb) =>
                Len(FromAdapter(received[cb])) <= Len(writeLog) - Since(cb)

C14_Witness ==
    /\ RegisteredOnce("cb1")
    /\ MainListeners = <<"cb1">>
    /\ writeLog = <<"m1", "m2">>
    /\ Since("cb1") = 1
    /\ received["cb1"] = <<Event("m2", "adapter", FALSE)>>

\* C15: the two halves share one tracker: once dispose() was called on the
\* reader half alone or on the writer half alone, the adapter is disposed,
\* no listen callback is left on the channel, and both listen and write
\* are no-ops.
C15_HalvesShareTracker ==
    disposedBy \in {"reader", "writer"} =>
        /\ disposed
        /\ \A cb \in ListenCallbacks :
              /\ Count(MainListeners, cb) = 0
              /\ ListenOp(St, cb) = St
        /\ \A m \in Messages : WriteOp(St, m) = St

C15_Witness ==
    /\ disposedBy = "writer"
    /\ lateCall = <<"listen", "cb1">>
    /\ nreg = 1
    /\ listenerRuns[1] = 1
    /\ received["cb1"] # <<>>

\* C16: the writer emits on the channel the reader listens on: while the
\* adapter is active, a write(m) invokes every callback the adapter itself
\* registered through listen, once per registration, with m.
C16_WritesLoopBack ==
    \A cb \in ListenCallbacks : \A m \in Messages :
        (~ disposed /\ TrackedItems(cb) # {}) =>
            LET before == received[cb]
                after == WriteOp(St, m).received[cb]
            IN /\ Len(after) = Len(before) + Cardinality(TrackedItems(cb))
               /\ SubSeq(after, 1, Len(before)) = before
               /\ \A i \in (Len(before) + 1)..Len(after) :
                      after[i] = Event(m, "adapter", FALSE)

C16_Witness ==
    /\ ~ disposed
    /\ Cardinality(TrackedItems("cb1")) = 2
    /\ writeLog = <<"m2">>
    /\ received["cb1"] =
          <<Event("m2", "adapter", FALSE), Event("m2", "adapter", FALSE)>>

\* C17: once init() has run, problemMatcherNames holds, in registry order,
\* one name per matcher of the registry: the matcher's name itself when it
\* starts with '$', and '$' followed by the name otherwise; nothing of an
\* earlier update stays in the list.
C17_MatcherNamesFollowRegistry ==
    inited =>
        /\ Len(problemMatcherNames) = Len(registry)
        /\ \A i \in 1..Len(registry) :
              LET name == registry[i]
                  listed == problemMatcherNames[i]
              IN /\ Len(listed) > 0 /\ listed[1] = "$"
                 /\ (Len(name) > 0 /\ name[1] = "$") => listed = name
                 /\ ~ (Len(name) > 0 /\ name[1] = "$") =>
                        (Len(listed) = Len(name) + 1 /\ Tail(listed) = name)

C17_Witness ==
    /\ inited
    /\ nchanges = 3
    /\ registry = << <<"$", "g">> >>
    /\ problemMatcherNames = << <<"$", "g">> >>
    /\ Len(updates) = 3
    /\ updates[1].names = << <<"$", "g">> >>
    /\ updates[2].names = << <<"$", "g">>, <<"$", "g">> >>

\* C18: whatever the number of update() calls and the order they finish
\* in, the task schema resource is added and its schema registered at most
\* once, by the first update that finishes; every later one replaces the
\* content.
Finished == {u \in 1..Len(updates) : updates[u].pc = "done"}

C18_SchemaAddedOnce ==
    /\ resource.adds <= 1
    /\ resource.registers = resource.adds
    /\ resource.exists <=> resource.adds = 1
    /\ Finished = {} => (resource.adds = 0 /\ resource.replaces = 0)
    /\ Finished # {} =>
          /\ resource.adds = 1
          /\ resource.replaces = Cardinality(Finished) - 1

C18_Witness ==
    /\ Len(updates) = 3
    /\ Finished = {1, 2, 3}
    /\ resource.adds = 1
    /\ resource.registers = 1
    /\ resource.replaces = 2
    /\ resource.content = updates[1].content
    /\ updates[1].content # updates[3].content
====
